---- MODULE Spec2Model ----
(***************************************************************************)
(* Model of find_email_addresses.py: the UrlCollection crawl frontier      *)
(* (normalize, in_root_domain, should_add, add_url, next) and the crawl    *)
(* loop of main() driving DriverParser.load_and_parse.                     *)
(*                                                                         *)
(* A Python string is a sequence of one-character strings, so that         *)
(* lower(), strip(), startswith(), endswith(), urlparse() and urlunparse() *)
(* are computed character by character, as the program computes them.      *)
(***************************************************************************)
EXTENDS Integers, Sequences, FiniteSets, TLC

VARIABLES
    uc,         \* the UrlCollection: root, base_url, seen_urls, work_urls, emails
    seed,       \* the string handed to UrlCollection(site)
    web,        \* the pages the browser has loaded so far: url -> page
    results,    \* the list map() builds in main(): one load_and_parse return per url
    found,      \* the value reduce() leaves in main()'s local `emails`
    pc,         \* where the caller is
    call,       \* the last call made, with its argument and return value
    taken,      \* the urls next() has returned so far
    ncalls      \* number of calls an arbitrary caller has made on the collection

vars == <<uc, seed, web, results, found, pc, call, taken, ncalls>>

-----------------------------------------------------------------------------
(* Python values and string primitives                                     *)

\* Python's None; no string equals it (its one element is not a character).
None == <<"None">>

\* The empty string ''.
Empty == <<>>

\* Truthiness of a str-or-None value: `if url`, `url and ...`.
Truthy(v) == v # None /\ v # Empty

UpperChars == <<"A","B","C","D","E","F","G","H","I","J","K","L","M",
                "N","O","P","Q","R","S","T","U","V","W","X","Y","Z">>

LowerChars == <<"a","b","c","d","e","f","g","h","i","j","k","l","m",
                "n","o","p","q","r","s","t","u","v","w","x","y","z">>

DigitChars == {"0","1","2","3","4","5","6","7","8","9"}

Range(s) == {s[i] : i \in 1..Len(s)}

\* str.lower() on one character.
LowerChar(c) ==
    IF \E i \in 1..Len(UpperChars) : UpperChars[i] = c
    THEN LowerChars[CHOOSE i \in 1..Len(UpperChars) : UpperChars[i] = c]
    ELSE c

\* str.lower()
Lower(s) == [i \in 1..Len(s) |-> LowerChar(s[i])]

\* s[i:] with a 1-based first position i
From(s, i) == SubSeq(s, i, Len(s))

\* s[:n], the first n characters
Take(s, n) == SubSeq(s, 1, IF n < Len(s) THEN n ELSE Len(s))

\* str.startswith(p)
StartsWith(s, p) == Len(p) <= Len(s) /\ SubSeq(s, 1, Len(p)) = p

\* str.endswith(p)
EndsWith(s, p) ==
    Len(p) <= Len(s) /\ SubSeq(s, Len(s) - Len(p) + 1, Len(s)) = p

\* str.find(c, start): the first position >= start holding c, 0 when there is none
Find(s, c, start) ==
    IF \E i \in start..Len(s) : s[i] = c
    THEN CHOOSE i \in start..Len(s) :
             s[i] = c /\ \A j \in start..(i - 1) : s[j] # c
    ELSE 0

\* str.rfind(c): the last position holding c, 0 when there is none
RFind(s, c) ==
    IF \E i \in 1..Len(s) : s[i] = c
    THEN CHOOSE i \in 1..Len(s) :
             s[i] = c /\ \A j \in (i + 1)..Len(s) : s[j] # c
    ELSE 0

WhitespaceChars == {" "}

\* str.strip(): drop leading and trailing whitespace
Strip(s) ==
    IF \A i \in 1..Len(s) : s[i] \in WhitespaceChars
    THEN Empty
    ELSE LET a == CHOOSE i \in 1..Len(s) :
                      s[i] \notin WhitespaceChars
                      /\ \A j \in 1..(i - 1) : s[j] \in WhitespaceChars
             b == CHOOSE i \in 1..Len(s) :
                      s[i] \notin WhitespaceChars
                      /\ \A j \in (i + 1)..Len(s) : s[j] \in WhitespaceChars
         IN  SubSeq(s, a, b)

-----------------------------------------------------------------------------
(* urlparse / urlunparse, as imported from the urlparse module             *)

HTTP == <<"h","t","t","p">>

SchemeChars ==
    Range(LowerChars) \cup Range(UpperChars) \cup DigitChars \cup {"+", "-", "."}

\* urlparse.uses_params: the schemes whose last path segment may carry ;params
uses_params ==
    {<<"f","t","p">>, <<"h","d","l">>, <<"p","r","o","s","p","e","r","o">>,
     <<"h","t","t","p">>, <<"i","m","a","p">>, <<"h","t","t","p","s">>,
     <<"s","h","t","t","p">>, <<"r","t","s","p">>, <<"r","t","s","p","u">>,
     <<"s","i","p">>, <<"s","i","p","s">>, <<"m","m","s">>, <<>>,
     <<"s","f","t","p">>, <<"t","e","l">>}

\* urlparse.uses_netloc: the schemes urlunsplit writes with a // authority
uses_netloc ==
    {<<"f","t","p">>, <<"h","t","t","p">>, <<"g","o","p","h","e","r">>,
     <<"n","n","t","p">>, <<"t","e","l","n","e","t">>, <<"i","m","a","p">>,
     <<"w","a","i","s">>, <<"f","i","l","e">>, <<"m","m","s">>,
     <<"h","t","t","p","s">>, <<"s","h","t","t","p">>, <<"s","n","e","w","s">>,
     <<"p","r","o","s","p","e","r","o">>, <<"r","t","s","p">>,
     <<"r","t","s","p","u">>, <<"r","s","y","n","c">>, <<>>, <<"s","v","n">>,
     <<"s","v","n","+","s","s","h">>, <<"s","f","t","p">>, <<"n","f","s">>,
     <<"g","i","t">>, <<"g","i","t","+","s","s","h">>}

\* The smallest number of a non-empty set of numbers.
Min(S) == CHOOSE d \in S : \A e \in S : d <= e

\* s[:i-1] when i is a position found in s, all of s when i = 0 (not found)
Before(s, i) == IF i > 0 THEN Take(s, i - 1) ELSE s

\* s[i+1:] when i is a position found in s, '' when i = 0 (not found)
After(s, i) == IF i > 0 THEN From(s, i + 1) ELSE Empty

\* s.split(c, 1)[0] and [1], the second being '' when c is not in s
BeforeChar(s, c) == Before(s, Find(s, c, 1))

AfterChar(s, c) == After(s, Find(s, c, 1))

\* urlparse._splitnetloc: the authority ends at the earliest of the positions
\* >= start of "/", "?" and "#", at the end of url if there is none.
NetlocEnd(url, start) ==
    Min(({Find(url, c, start) : c \in {"/", "?", "#"}} \ {0}) \cup {Len(url) + 1})

\* urlsplit once scheme and authority are cut off: the fragment goes first,
\* then the query.
SplitPath(scheme, netloc, url) ==
    [scheme   |-> scheme,
     netloc   |-> netloc,
     path     |-> BeforeChar(BeforeChar(url, "#"), "?"),
     query    |-> AfterChar(BeforeChar(url, "#"), "?"),
     fragment |-> AfterChar(url, "#")]

\* urlsplit once the scheme is cut off: `if url[:2] == '//'` take the authority
SplitRest(scheme, url) ==
    IF Take(url, 2) = <<"/", "/">>
    THEN SplitPath(scheme, SubSeq(url, 3, NetlocEnd(url, 3) - 1),
                   From(url, NetlocEnd(url, 3)))
    ELSE SplitPath(scheme, Empty, url)

\* The position of the ":" that ends url's scheme, given the position i of
\* url's first ":"; 0 when url has no scheme. What comes before the colon must
\* be 'http' or made of scheme characters and not be followed by a port number.
SchemeEnd(url, i) ==
    IF i < 2 THEN 0
    ELSE IF Take(url, i - 1) = HTTP THEN i
    ELSE IF /\ \A k \in 1..(i - 1) : url[k] \in SchemeChars
            /\ \/ i = Len(url)
               \/ \E k \in (i + 1)..Len(url) : url[k] \notin DigitChars
    THEN i
    ELSE 0

SplitScheme(url, i) ==
    IF i = 0 THEN SplitRest(Empty, url)
    ELSE SplitRest(Lower(Take(url, i - 1)), From(url, i + 1))

\* urlparse.urlsplit(url)
urlsplit(url) == SplitScheme(url, SchemeEnd(url, Find(url, ":", 1)))

\* urlparse._splitparams(path): the position of the ";" that starts the params
\* of the last path segment, 0 when it has none
ParamsAt(path) ==
    IF Find(path, "/", 1) > 0
    THEN Find(path, ";", RFind(path, "/"))
    ELSE Find(path, ";", 1)

\* urlparse.urlparse, given urlsplit's result s
SplitParams(s) ==
    [scheme   |-> s.scheme,
     netloc   |-> s.netloc,
     path     |-> IF s.scheme \in uses_params
                  THEN Before(s.path, ParamsAt(s.path)) ELSE s.path,
     params   |-> IF s.scheme \in uses_params
                  THEN After(s.path, ParamsAt(s.path)) ELSE Empty,
     query    |-> s.query,
     fragment |-> s.fragment]

\* urlparse.urlparse(url)
urlparse(url) == SplitParams(urlsplit(url))

\* urlunsplit: a path written after an authority starts with "/"
Rooted(path) ==
    IF path # Empty /\ Take(path, 1) # <<"/">> THEN <<"/">> \o path ELSE path

\* urlunsplit: scheme + ':' in front when there is a scheme
WithScheme(scheme, url) ==
    IF scheme # Empty THEN scheme \o <<":">> \o url ELSE url

\* urlparse.urlunparse((scheme, netloc, path, None, None, None))
urlunparse(scheme, netloc, path) ==
    IF netloc # Empty
       \/ (scheme # Empty /\ scheme \in uses_netloc /\ Take(path, 2) # <<"/", "/">>)
    THEN WithScheme(scheme, <<"/", "/">> \o netloc \o Rooted(path))
    ELSE WithScheme(scheme, path)

-----------------------------------------------------------------------------
(* UrlCollection                                                           *)

SchemeSep == <<":", "/", "/">>

\* str.strip().lower() of the constructor's argument
Cleaned(s) == Lower(Strip(s))

\* `site if site.startswith('http') else "{}://{}".format('http', site)`
WithHttp(t) == IF StartsWith(t, HTTP) THEN t ELSE HTTP \o SchemeSep \o t

\* The constructor's `site`
Site(s) == WithHttp(Cleaned(s))

\* The constructor's setup, given site and parsed = urlparse(site)
Setup(site, parsed) ==
    [root      |-> parsed.netloc,
     base_url  |-> parsed.scheme \o SchemeSep \o parsed.netloc,
     seen_urls |-> {site},
     work_urls |-> {site},
     emails    |-> {}]

\* UrlCollection.__init__
UrlCollection(s) == Setup(Site(s), urlparse(Site(s)))

\* in_root_domain as it would be with the host matched on a dot boundary
in_root_domain_dot_boundary(self, url) ==
    \/ urlparse(url).netloc = self.root
    \/ EndsWith(urlparse(url).netloc, <<".">> \o self.root)

\* UrlCollection.in_root_domain
in_root_domain(self, url) == EndsWith(urlparse(url).netloc, self.root)

\* UrlCollection.should_parse
should_parse(self, url) == Truthy(url) /\ in_root_domain(self, url)

\* should_add as it would be without the root-domain test
should_add_any_domain(self, url) == Truthy(url) /\ url \notin self.seen_urls

\* should_add as it would be without the seen_urls test
should_add_seen_again(self, url) == Truthy(url) /\ in_root_domain(self, url)

\* UrlCollection.should_add
should_add(self, url) ==
    Truthy(url) /\ url \notin self.seen_urls /\ in_root_domain(self, url)

\* The relative-link fix of normalize as it would be if it resolved nothing
Absolute_unresolved(self, url) == url

\* The relative-link fix as it would be if it always assumed plain http
Absolute_http_origin(self, url) ==
    IF StartsWith(url, <<"/">>) THEN HTTP \o SchemeSep \o self.root \o url
    ELSE url

\* normalize: `url if not url.startswith('/') else self.base_url + url`
Absolute(self, url) ==
    IF StartsWith(url, <<"/">>) THEN self.base_url \o url ELSE url

\* The rebuilt url as it would be if the scheme were dropped with the extras
StripExtras_no_scheme(parsed) == urlunparse(Empty, parsed.netloc, parsed.path)

\* normalize: urlunparse((parsed.scheme, parsed.netloc, parsed.path, None, None, None))
StripExtras(parsed) == urlunparse(parsed.scheme, parsed.netloc, parsed.path)

\* normalize: a lower-cased url that is no web page gives None
WebPage(low) ==
    IF ~StartsWith(low, HTTP) THEN None ELSE StripExtras(urlparse(low))

\* normalize as it would be without `.lower()`
normalize_case_sensitive(self, url) ==
    IF ~Truthy(url) THEN None ELSE WebPage(Absolute(self, url))

\* UrlCollection.normalize
normalize(self, url) ==
    IF ~Truthy(url) THEN None ELSE WebPage(Lower(Absolute(self, url)))

\* add_url as it would be if it recorded the url without queueing it
Admit_seen_only(self, n) ==
    IF ~should_add(self, n) THEN self
    ELSE [self EXCEPT !.seen_urls = @ \cup {n}]

\* add_url as it would be if it queued again a url it has seen
Admit_requeues(self, n) ==
    IF ~should_add(self, n)
    THEN IF n \in self.seen_urls THEN [self EXCEPT !.work_urls = @ \cup {n}]
         ELSE self
    ELSE [self EXCEPT !.seen_urls = @ \cup {n}, !.work_urls = @ \cup {n}]

\* add_url as it would be if it assigned work_urls instead of adding to it
Admit_replaces_work(self, n) ==
    IF ~should_add(self, n) THEN self
    ELSE [self EXCEPT !.seen_urls = @ \cup {n}, !.work_urls = {n}]

\* add_url, given the normalized url n
Admit(self, n) ==
    IF ~should_add(self, n) THEN self
    ELSE [self EXCEPT !.seen_urls = @ \cup {n}, !.work_urls = @ \cup {n}]

\* UrlCollection.add_url: the collection after the call (the call returns self)
add_url(self, url) == Admit(self, normalize(self, url))

\* UrlCollection.add_email
add_email(self, email) == [self EXCEPT !.emails = @ \cup {email}]

\* The test of next as it would be if it stopped one url early
HasWork_off_by_one(self) == Cardinality(self.work_urls) > 1

\* `if self.work_urls` in UrlCollection.next: is there a url to pop?
HasWork(self) == self.work_urls # {}

\* next as it would be if the popped url were forgotten altogether
PopUrl_forgets(self, url) ==
    [self EXCEPT !.work_urls = @ \ {url}, !.seen_urls = @ \ {url}]

\* UrlCollection.next on a non-empty work_urls: the collection after pop()
\* returned url (set.pop() returns an arbitrary element)
PopUrl(self, url) == [self EXCEPT !.work_urls = @ \ {url}]

-----------------------------------------------------------------------------
(* The strings the model draws its inputs from                             *)

\* 'example.com'
SeedExample ==
    <<"e","x","a","m","p","l","e",".","c","o","m">>

\* 'https://example.com'
SeedHttps ==
    <<"h","t","t","p","s",":","/","/","e","x","a","m","p","l","e",".","c","o","m">>

\* ' Example.com/?q=1'
SeedQuery ==
    <<" ","E","x","a","m","p","l","e",".","c","o","m","/","?","q","=","1">>

\* '/contact'
H_Contact ==
    <<"/","c","o","n","t","a","c","t">>

\* '/about'
H_About ==
    <<"/","a","b","o","u","t">>

\* '/away'
H_Away ==
    <<"/","a","w","a","y">>

\* '/?q=1'
H_RootQuery ==
    <<"/","?","q","=","1">>

\* 'http://example.com'
U_HttpSite ==
    <<"h","t","t","p",":","/","/","e","x","a","m","p","l","e",".","c","o","m">>

\* 'https://example.com/'
U_HttpsRoot ==
    <<"h","t","t","p","s",":","/","/","e","x","a","m","p","l","e",".","c","o","m","/">>

\* 'http://example.com/contact'
U_HttpContact ==
    <<"h","t","t","p",":","/","/","e","x","a","m","p","l","e",".","c","o","m","/","c","o","n","t","a","c","t">>

\* 'https://example.com/contact'
U_HttpsContact ==
    <<"h","t","t","p","s",":","/","/","e","x","a","m","p","l","e",".","c","o","m","/","c","o","n","t","a","c","t">>

\* 'http://example.com/away'
U_HttpAway ==
    <<"h","t","t","p",":","/","/","e","x","a","m","p","l","e",".","c","o","m","/","a","w","a","y">>

\* 'https://example.com/away'
U_HttpsAway ==
    <<"h","t","t","p","s",":","/","/","e","x","a","m","p","l","e",".","c","o","m","/","a","w","a","y">>

\* 'https://example.com/x'
U_X ==
    <<"h","t","t","p","s",":","/","/","e","x","a","m","p","l","e",".","c","o","m","/","x">>

\* 'https://blog.example.com/x'
U_BlogX ==
    <<"h","t","t","p","s",":","/","/","b","l","o","g",".","e","x","a","m","p","l","e",".","c","o","m","/","x">>

\* 'https://example.com.evil.com/x'
U_EvilX ==
    <<"h","t","t","p","s",":","/","/","e","x","a","m","p","l","e",".","c","o","m",".","e","v","i","l",".","c","o","m","/","x">>

\* 'https://notexample.com/x'
U_NotExampleX ==
    <<"h","t","t","p","s",":","/","/","n","o","t","e","x","a","m","p","l","e",".","c","o","m","/","x">>

\* 'HTTPS://Example.com/Path?x=1#frag'
U_Mixed ==
    <<"H","T","T","P","S",":","/","/","E","x","a","m","p","l","e",".","c","o","m","/","P","a","t","h","?","x","=","1","#","f","r","a","g">>

\* 'https://example.com/path'
U_Path ==
    <<"h","t","t","p","s",":","/","/","e","x","a","m","p","l","e",".","c","o","m","/","p","a","t","h">>

\* 'https://example.com/path?y=2'
U_PathQuery ==
    <<"h","t","t","p","s",":","/","/","e","x","a","m","p","l","e",".","c","o","m","/","p","a","t","h","?","y","=","2">>

\* 'https://example.com/about'
U_HttpsAbout ==
    <<"h","t","t","p","s",":","/","/","e","x","a","m","p","l","e",".","c","o","m","/","a","b","o","u","t">>

\* 'http://Example.com/a;p/b;q?z#f'
U_Params ==
    <<"h","t","t","p",":","/","/","E","x","a","m","p","l","e",".","c","o","m","/","a",";","p","/","b",";","q","?","z","#","f">>

\* 'http:foo'
U_Opaque ==
    <<"h","t","t","p",":","f","o","o">>

\* 'mailto:info@example.com'
U_Mailto ==
    <<"m","a","i","l","t","o",":","i","n","f","o","@","e","x","a","m","p","l","e",".","c","o","m">>

\* 'ftp://example.com/f'
U_Ftp ==
    <<"f","t","p",":","/","/","e","x","a","m","p","l","e",".","c","o","m","/","f">>

\* 'httpx://example.com/'
U_Httpx ==
    <<"h","t","t","p","x",":","/","/","e","x","a","m","p","l","e",".","c","o","m","/">>

\* 'http.example.com/page'
U_HttpDot ==
    <<"h","t","t","p",".","e","x","a","m","p","l","e",".","c","o","m","/","p","a","g","e">>

\* 'https://other.com/'
U_Other ==
    <<"h","t","t","p","s",":","/","/","o","t","h","e","r",".","c","o","m","/">>

\* 'example.com'
EXAMPLE_COM ==
    <<"e","x","a","m","p","l","e",".","c","o","m">>

INFO == "info@example.com"

SALES == "sales@example.com"

SPAM == "spam@other.com"

\* The seeds a crawl is started with.
Seeds == {SeedExample, SeedHttps, SeedQuery}

\* The raw urls an arbitrary caller hands to add_url.
Hrefs ==
    {None, Empty, H_Contact, H_About, H_RootQuery, U_HttpsContact, U_X, U_BlogX,
     U_EvilX, U_NotExampleX, U_Mixed, U_Path, U_PathQuery, U_Params, U_Opaque,
     U_Mailto, U_Ftp, U_Httpx, U_HttpDot}

\* The strings an arbitrary caller hands to add_email.
Emails == {INFO, SALES}

\* How many calls an arbitrary caller makes on one collection.
MaxCalls == 3

-----------------------------------------------------------------------------
(* DriverParser: what the browser shows for a url                          *)

\* A loaded page, as the driver reports it:
\*   load        "complete" when driver.get and the readyState wait return,
\*               "error" when either raises WebDriverException (a timeout too)
\*   current_url driver.current_url after any redirect
\*   find_ok     FALSE when find_elements_by_xpath raises WebDriverException
\*   hrefs       the href of each <a href> element, in document order
\*   stale       the elements whose get_attribute raises WebDriverException
\*   body_ok     FALSE when reading <body>'s innerHTML raises WebDriverException
\*   body        what EMAIL_RE.findall gives on the innerHTML
Page(load, current_url, find_ok, hrefs, stale, body_ok, body) ==
    [load |-> load, current_url |-> current_url, find_ok |-> find_ok,
     hrefs |-> hrefs, stale |-> stale, body_ok |-> body_ok, body |-> body]

\* The pages the browser may show for url: the load fails; a redirect leaves
\* the domain; the home page of the end-to-end scenario; a page with no link
\* and no email; a page with no link and the same email twice; a page with
\* further links and a repeated email; a page whose
\* body cannot be read; a page whose links cannot be listed; a page with a
\* stale link element.
Pages(url) ==
    {Page("error", url, TRUE, <<>>, {}, TRUE, <<>>),
     Page("complete", U_Other, TRUE, <<H_Contact, H_About>>, {}, TRUE, <<SPAM>>),
     Page("complete", U_HttpsRoot, TRUE, <<H_Contact, U_HttpsContact>>, {}, TRUE,
          <<INFO, SALES>>),
     Page("complete", url, TRUE, <<>>, {}, TRUE, <<>>),
     Page("complete", url, TRUE, <<>>, {}, TRUE, <<INFO, INFO>>),
     Page("complete", url, TRUE, <<H_Away, U_Other, H_Contact>>, {}, TRUE,
          <<INFO, INFO>>),
     Page("complete", url, TRUE, <<H_Contact>>, {}, FALSE, <<>>),
     Page("complete", url, FALSE, <<H_About>>, {}, TRUE, <<SALES>>),
     Page("complete", url, TRUE, <<H_About, H_Contact>>, {1}, TRUE, <<SALES>>)}

\* DriverParser.parse_urls: the hrefs the generator yields, in order
RECURSIVE Yielded(_, _)
Yielded(page, i) ==
    IF i > Len(page.hrefs) THEN <<>>
    ELSE IF i \in page.stale THEN Yielded(page, i + 1)
    ELSE <<page.hrefs[i]>> \o Yielded(page, i + 1)

parse_urls(page) == IF page.find_ok THEN Yielded(page, 1) ELSE <<>>

\* DriverParser.parse_emails: the list of matches, None when the body read raises
parse_emails(page) == IF page.body_ok THEN page.body ELSE None

\* map(uc.add_url, urls)
RECURSIVE MapAddUrl(_, _)
MapAddUrl(self, urls) ==
    IF urls = <<>> THEN self
    ELSE MapAddUrl(add_url(self, Head(urls)), Tail(urls))

\* load_and_parse as it would be without the test of the landing url
load_and_parse_any_landing(self, page) ==
    IF page.load # "complete" THEN [uc |-> self, ret |-> Empty]
    ELSE [uc  |-> MapAddUrl(self, parse_urls(page)),
          ret |-> parse_emails(page)]

\* DriverParser.load_and_parse: the collection afterwards and the value returned
load_and_parse(self, page) ==
    IF page.load # "complete" THEN [uc |-> self, ret |-> Empty]
    ELSE IF ~should_parse(self, normalize(self, page.current_url))
    THEN [uc |-> self, ret |-> Empty]
    ELSE [uc  |-> MapAddUrl(self, parse_urls(page)),
          ret |-> parse_emails(page)]

-----------------------------------------------------------------------------
(* main(): reduce over the list map() built                                *)

\* A Python value of main()'s `emails`: a list, a set, None, or no value yet
\* ("unset"); "TypeError" marks the exception set(None) raises.
Val(type, list, set) == [type |-> type, list |-> list, set |-> set]

Unset == Val("unset", <<>>, {})

TypeError == Val("TypeError", <<>>, {})

\* One load_and_parse return as a value: a list of emails, or None
ValOf(r) == IF r = None THEN Val("NoneType", <<>>, {}) ELSE Val("list", r, {})

\* set(v) for a list or a set
Items(v) == IF v.type = "list" THEN Range(v.list) ELSE v.set

\* lambda x, y: set(x).union(set(y)); set(None) raises TypeError
UnionOf(x, y) ==
    IF x.type \in {"NoneType", "TypeError"} \/ y.type \in {"NoneType", "TypeError"}
    THEN TypeError
    ELSE Val("set", <<>>, Items(x) \cup Items(y))

RECURSIVE FoldUnion(_, _, _)
FoldUnion(acc, rs, i) ==
    IF i > Len(rs) \/ acc.type = "TypeError" THEN acc
    ELSE FoldUnion(UnionOf(acc, ValOf(rs[i])), rs, i + 1)

\* reduce(f, rs) with no initial value: the single element itself when there
\* is one, TypeError on an empty list
reduce(rs) ==
    IF rs = <<>> THEN TypeError ELSE FoldUnion(ValOf(rs[1]), rs, 2)

-----------------------------------------------------------------------------
(* An arbitrary caller of UrlCollection: any sequence of add_url, next and *)
(* add_email calls on a freshly constructed collection                     *)

StopIteration == <<"StopIteration">>

Self == <<"self">>

Call(op, arg, ret) == [op |-> op, arg |-> arg, ret |-> ret]

Init ==
    /\ seed \in Seeds
    /\ uc = UrlCollection(seed)
    /\ web = <<>>
    /\ results = <<>>
    /\ found = Unset
    /\ pc = "caller"
    /\ call = Call("__init__", seed, None)
    /\ taken = {}
    /\ ncalls = 0

CallAddUrl ==
    /\ pc = "caller"
    /\ ncalls < MaxCalls
    /\ \E url \in Hrefs :
           /\ uc' = add_url(uc, url)
           /\ call' = Call("add_url", url, Self)
    /\ ncalls' = ncalls + 1
    /\ UNCHANGED <<seed, web, results, found, pc, taken>>

CallAddEmail ==
    /\ pc = "caller"
    /\ ncalls < MaxCalls
    /\ \E email \in Emails :
           /\ uc' = add_email(uc, email)
           /\ call' = Call("add_email", <<email>>, None)
    /\ ncalls' = ncalls + 1
    /\ UNCHANGED <<seed, web, results, found, pc, taken>>

CallNext ==
    /\ pc = "caller"
    /\ ncalls < MaxCalls
    /\ HasWork(uc)
    /\ \E url \in uc.work_urls :
           /\ uc' = PopUrl(uc, url)
           /\ call' = Call("next", Empty, url)
           /\ taken' = taken \cup {url}
    /\ ncalls' = ncalls + 1
    /\ UNCHANGED <<seed, web, results, found, pc>>

CallNextExhausted ==
    /\ pc = "caller"
    /\ ncalls < MaxCalls
    /\ ~HasWork(uc)
    /\ call' = Call("next", Empty, StopIteration)
    /\ ncalls' = ncalls + 1
    /\ UNCHANGED <<uc, seed, web, results, found, pc, taken>>

Next == CallAddUrl \/ CallAddEmail \/ CallNext \/ CallNextExhausted

Spec == Init /\ [][Next]_vars

-----------------------------------------------------------------------------
(* main(): the crawl                                                       *)

CrawlInit ==
    /\ seed \in Seeds
    /\ uc = UrlCollection(seed)
    /\ web = <<>>
    /\ results = <<>>
    /\ found = Unset
    /\ pc = "crawl"
    /\ call = Call("__init__", seed, None)
    /\ taken = {}
    /\ ncalls = 0

\* The page the browser shows for url: the one it showed before, if any.
Fetch(url) == IF url \in DOMAIN web THEN {web[url]} ELSE Pages(url)

\* What one round of map() leaves, given load_and_parse's outcome r.
Visited(url, page, r) ==
    /\ uc' = r.uc
    /\ results' = Append(results, r.ret)
    /\ web' = (url :> page) @@ web
    /\ call' = Call("load_and_parse", url, r.ret)
    /\ taken' = taken \cup {url}

\* One round of map(lambda url: dp.load_and_parse(uc, url), uc): next() pops
\* a url, load_and_parse loads it and its return joins the list.
Visit ==
    /\ pc = "crawl"
    /\ HasWork(uc)
    /\ \E url \in uc.work_urls :
         \E page \in Fetch(url) :
             Visited(url, page, load_and_parse(PopUrl(uc, url), page))
    /\ UNCHANGED <<seed, found, pc, ncalls>>

\* next() raises StopIteration, map() returns its list and reduce() runs.
Finish ==
    /\ pc = "crawl"
    /\ ~HasWork(uc)
    /\ found' = reduce(results)
    /\ pc' = IF found'.type = "TypeError" THEN "error" ELSE "done"
    /\ call' = Call("next", Empty, StopIteration)
    /\ UNCHANGED <<uc, seed, web, results, taken, ncalls>>

CrawlNext == Visit \/ Finish

CrawlSpec == CrawlInit /\ [][CrawlNext]_vars

\* The loop of main() always takes its next step: a fetch returns or raises
\* within the page-load wait.
FairCrawlSpec == CrawlSpec /\ WF_vars(CrawlNext)

-----------------------------------------------------------------------------
(* Properties of the collection under an arbitrary caller (Spec)           *)

\* C1. Dedup invariant: seen_urls never holds two distinct strings that
\* normalize to the same value, the seed entry included.
C1_DedupInvariant ==
    \A s1 \in uc.seen_urls : \A s2 \in uc.seen_urls :
        s1 # s2 => normalize(uc, s1) # normalize(uc, s2)

\* C2. From construction onward seen_urls contains the normalized seed: the
\* entry the constructor seeds is the normalized form of the seed url (the
\* seed being read with the scheme the constructor gives it).
C2_SeenHasNormalizedSeed == normalize(uc, Site(seed)) \in uc.seen_urls

\* The host of url does not end with root.
OutsideRoot(url) == ~EndsWith(urlparse(url).netloc, uc.root)

\* C3. Domain boundary: add_url never inserts into seen_urls or work_urls a
\* url whose host does not end with root.
C3_DomainBoundary ==
    [][call'.op = "add_url" =>
         \A u \in (uc'.seen_urls \ uc.seen_urls) \cup (uc'.work_urls \ uc.work_urls) :
             EndsWith(urlparse(u).netloc, uc.root)]_vars

\* C3 witness: add_url was handed a url outside the root domain after a url
\* inside it had been admitted, and the outside url is not in the collection.
C3_Witness ==
    /\ call.op = "add_url"
    /\ call.arg = U_EvilX
    /\ OutsideRoot(U_EvilX)
    /\ U_BlogX \in uc.seen_urls
    /\ U_EvilX \notin uc.seen_urls \cup uc.work_urls

\* The step is add_url(url) on a collection of root example.com.
AddsUrl(url) == uc.root = EXAMPLE_COM /\ call'.op = "add_url" /\ call'.arg = url

\* add_url admitted url: it is seen, and pending if it was not seen before.
Admitted(url) ==
    /\ url \in uc'.seen_urls
    /\ url \notin uc.seen_urls => url \in uc'.work_urls

\* add_url left seen_urls and work_urls as they were.
Rejected == uc'.seen_urls = uc.seen_urls /\ uc'.work_urls = uc.work_urls

\* C4 as stated. With root example.com, add_url admits https://example.com/x
\* and https://blog.example.com/x, and rejects https://example.com.evil.com/x
\* and https://notexample.com/x.
C4_AsStated ==
    [][/\ AddsUrl(U_X) => Admitted(U_X)
       /\ AddsUrl(U_BlogX) => Admitted(U_BlogX)
       /\ AddsUrl(U_EvilX) => Rejected
       /\ AddsUrl(U_NotExampleX) => Rejected]_vars

\* C4 as amended. With root example.com, add_url admits https://example.com/x,
\* https://blog.example.com/x and https://notexample.com/x (the host is
\* matched as a suffix, with no dot boundary), and rejects
\* https://example.com.evil.com/x.
C4_SuffixMatch ==
    [][/\ AddsUrl(U_X) => Admitted(U_X)
       /\ AddsUrl(U_BlogX) => Admitted(U_BlogX)
       /\ AddsUrl(U_NotExampleX) => Admitted(U_NotExampleX)
       /\ AddsUrl(U_EvilX) => Rejected]_vars

\* C4 witness: on root example.com, https://example.com/x and
\* https://notexample.com/x are in and https://example.com.evil.com/x was
\* just refused.
C4_Witness ==
    /\ uc.root = EXAMPLE_COM
    /\ call.op = "add_url"
    /\ call.arg = U_EvilX
    /\ {U_X, U_NotExampleX} \subseteq uc.seen_urls \cap uc.work_urls
    /\ U_EvilX \notin uc.seen_urls

-----------------------------------------------------------------------------
(* Properties of the crawl (CrawlSpec, FairCrawlSpec)                      *)

\* The iteration is exhausted: next() has raised StopIteration.
Exhausted == pc # "crawl"

FetchSucceeded(url) ==
    /\ web[url].load = "complete"
    /\ web[url].current_url = url
    /\ web[url].find_ok
    /\ web[url].stale = {}
    /\ web[url].body_ok

\* The page shown for the normalized url u; the seed's page is the one the
\* crawl was shown for the seed.
PageAt(u) == IF u = normalize(uc, Site(seed)) THEN web[Site(seed)] ELSE web[u]

Known(u) == u = normalize(uc, Site(seed)) \/ u \in DOMAIN web

\* The normalized in-domain urls the page at u links to.
LinksFrom(u) ==
    IF ~Known(u) THEN {}
    ELSE {n \in {normalize(uc, PageAt(u).hrefs[i]) : i \in 1..Len(PageAt(u).hrefs)} :
             Truthy(n) /\ EndsWith(urlparse(n).netloc, uc.root)}

LinkStep(R) == R \cup UNION {LinksFrom(u) : u \in R}

RECURSIVE LinkClosure(_)
LinkClosure(R) == IF LinkStep(R) = R THEN R ELSE LinkClosure(LinkStep(R))

\* The normalized in-domain urls reachable from the seed by following links.
Reachable == LinkClosure({normalize(uc, Site(seed))})

\* C6. Closure at termination: when every fetch succeeds and lands on the
\* requested url, seen_urls at the end of the crawl is exactly the set of
\* normalized in-domain urls reachable from the seed by following links.
C6_Closure ==
    (Exhausted /\ \A u \in DOMAIN web : FetchSucceeded(u))
        => uc.seen_urls = Reachable

HomePage ==
    Page("complete", U_HttpsRoot, TRUE, <<H_Contact, U_HttpsContact>>, {}, TRUE,
         <<INFO, SALES>>)

PlainPage(url) == Page("complete", url, TRUE, <<>>, {}, TRUE, <<>>)

\* The end-to-end scenario has run to its end: seed "example.com", the seed's
\* fetch shows the home page at https://example.com/ with the links
\* "/contact" and "https://example.com/contact" and the two emails, and
\* every other page has no link and no email.
ScenarioDone ==
    /\ seed = SeedExample
    /\ pc = "done"
    /\ web[Site(seed)] = HomePage
    /\ \A u \in DOMAIN web \ {Site(seed)} : web[u] = PlainPage(u)

\* C7 as stated. The end-to-end scenario ends with the email set
\* {info@example.com, sales@example.com} and exactly 2 entries in seen_urls.
C7_AsStated ==
    ScenarioDone =>
        /\ found.type = "set"
        /\ found.set = {INFO, SALES}
        /\ Cardinality(uc.seen_urls) = 2

\* C7 as amended. The end-to-end scenario ends with the email set
\* {info@example.com, sales@example.com} and exactly 3 entries in seen_urls:
\* http://example.com, http://example.com/contact (the link "/contact"
\* resolved against the seed's http base) and https://example.com/contact.
C7_ThreeEntries ==
    ScenarioDone =>
        /\ found.type = "set"
        /\ found.set = {INFO, SALES}
        /\ uc.seen_urls = {U_HttpSite, U_HttpContact, U_HttpsContact}

\* C7 witness: the scenario has run to its end and both contact urls were
\* fetched.
C7_Witness ==
    /\ ScenarioDone
    /\ {U_HttpContact, U_HttpsContact} \subseteq DOMAIN web

\* The page was allowed to contribute: it loaded and landed inside the root
\* domain.
Contributing(page) ==
    /\ page.load = "complete"
    /\ Truthy(normalize(uc, page.current_url))
    /\ EndsWith(urlparse(normalize(uc, page.current_url)).netloc, uc.root)

\* The emails found on the pages that contributed.
Contributed ==
    UNION {Range(web[u].body) : u \in {v \in DOMAIN web :
                                          Contributing(web[v]) /\ web[v].body_ok}}

\* C8. Failure semantics: whatever fails for a url (the load, the wait, the
\* reading of links, the reading of the body), the crawl runs to exhaustion
\* and returns the emails gathered from the other pages; it never aborts
\* with an error.
C8_FailuresNonFatal ==
    /\ pc # "error"
    /\ pc = "done" => Items(found) = Contributed

NoDuplicates(l) ==
    \A i \in 1..Len(l) : \A j \in 1..Len(l) : i # j => l[i] # l[j]

\* C9. The value a crawl returns is the de-duplicated set of emails: each
\* email appears in it at most once, also after a crawl of a single page,
\* and it holds exactly the emails of the pages that contributed.
C9_Deduplicated ==
    pc = "done" =>
        /\ NoDuplicates(found.list)
        /\ Items(found) = Contributed

\* The emails in the list of load_and_parse returns.
Gathered(rs) == UNION {Range(rs[i]) : i \in {j \in 1..Len(rs) : rs[j] # None}}

\* C10. A page that contributes nothing leaves the frontier untouched: when
\* the fetch of the taken url fails, or the page lands on a url for which
\* should_parse is false, the step adds no link and no email: seen_urls is
\* unchanged, work_urls only loses the taken url, the emails are unchanged,
\* and the crawl goes on.
C10_NoContribution ==
    [][(/\ call'.op = "load_and_parse"
        /\ Len(results') = Len(results) + 1
        /\ ~Contributing(web'[call'.arg]))
       => /\ uc'.seen_urls = uc.seen_urls
          /\ uc'.work_urls = uc.work_urls \ {call'.arg}
          /\ uc'.emails = uc.emails
          /\ call'.ret = Empty
          /\ Gathered(results') = Gathered(results)
          /\ pc' = "crawl"]_vars

\* C10 witness: https://example.com/away or http://example.com/away was
\* fetched, landed on https://other.com/, a page with links and an email,
\* and the crawl has another url to go on with.
C10_Witness ==
    /\ call.op = "load_and_parse"
    /\ call.arg \in {U_HttpAway, U_HttpsAway}
    /\ web[call.arg].load = "complete"
    /\ web[call.arg].current_url = U_Other
    /\ web[call.arg].hrefs # <<>>
    /\ web[call.arg].body # <<>>
    /\ pc = "crawl"
    /\ uc.work_urls # {}

-----------------------------------------------------------------------------
(* C11: emails accumulate in the collection                                *)

\* C11: when the crawl has run to its end, the emails field of the
\* collection holds every email extracted from a contributing page, and it
\* is the value the crawl returns.
C11_EmailsAccumulate ==
    pc = "done" => (uc.emails = Contributed /\ Items(found) = uc.emails)

-----------------------------------------------------------------------------
(* C12 .. C19: add_url and normalize under an arbitrary caller (Spec)      *)

\* The normalized url that the add_url call of a step works on.
Normalized == {normalize(uc, url) : url \in {call'.arg}}

\* n passes every test of should_add: it is a string, is new to seen_urls
\* and its host ends in root.
Succeeds(n) ==
    /\ Truthy(n)
    /\ n \notin uc.seen_urls
    /\ EndsWith(urlparse(n).netloc, uc.root)

\* C12. A successful add_url grows seen_urls by exactly one element, and
\* that element, the normalized url, is put into both seen_urls and
\* work_urls.
C12_AdmitsOnce ==
    [][call'.op = "add_url" =>
         \A n \in Normalized :
             Succeeds(n) =>
                 /\ Cardinality(uc'.seen_urls) = Cardinality(uc.seen_urls) + 1
                 /\ uc'.seen_urls = uc.seen_urls \cup {n}
                 /\ uc'.work_urls = uc.work_urls \cup {n}]_vars

\* A relative link was admitted: it is recorded and queued in resolved form.
C12_Witness ==
    /\ call.op = "add_url"
    /\ call.arg = H_Contact
    /\ Cardinality(uc.seen_urls) = 2
    /\ normalize(uc, H_Contact) \in uc.seen_urls \cap uc.work_urls
    /\ normalize(uc, H_Contact) # Site(seed)

\* C13. normalize is idempotent: whatever url add_url is called with,
\* normalizing its normalized form gives the same value again; a url that
\* normalizes to None stays None.
C13_Idempotent ==
    [][call'.op = "add_url" =>
         \A n \in Normalized : normalize(uc, n) = n]_vars

\* normalize had something to strip (params, query and fragment) from the
\* url of a call, and a call with None was made on the same collection.
C13_Witness ==
    /\ call.op = "add_url"
    /\ call.arg = None
    /\ normalize(uc, U_Params) \in uc.seen_urls
    /\ normalize(uc, U_Params) # Lower(U_Params)
    /\ normalize(uc, None) = None

\* Three spellings of one page: they differ in letter case, query and
\* fragment only.
SamePage == {U_Mixed, U_Path, U_PathQuery}

\* C14. normalize('HTTPS://Example.com/Path?x=1#frag') is
\* 'https://example.com/path'; urls that differ only in query, fragment or
\* letter case normalize to that same key, and add_url admits the key at
\* most once.
C14_OneKey ==
    [][(call'.op = "add_url" /\ call'.arg \in SamePage) =>
         \A n \in Normalized :
             /\ n = U_Path
             /\ U_Path \in uc'.seen_urls
             /\ uc'.seen_urls \ uc.seen_urls \subseteq {U_Path}
             /\ U_Path \in uc.seen_urls => Rejected]_vars

\* The page was admitted and taken under one spelling, and a call with the
\* mixed-case spelling was refused afterwards.
C14_Witness ==
    /\ call.op = "add_url"
    /\ call.arg = U_Mixed
    /\ taken = {U_Path}
    /\ U_Path \notin uc.work_urls
    /\ Cardinality(uc.seen_urls) = 2

\* C15. On a collection whose base_url is 'https://example.com',
\* add_url('/about') leaves 'https://example.com/about' in seen_urls.
C15_RelativeLink ==
    [][(uc.base_url = SeedHttps /\ call'.op = "add_url" /\ call'.arg = H_About)
           => U_HttpsAbout \in uc'.seen_urls]_vars

\* '/about' was added to a collection seeded with 'https://example.com'.
C15_Witness ==
    /\ uc.base_url = SeedHttps
    /\ call.op = "add_url"
    /\ call.arg = H_About
    /\ U_HttpsAbout \in uc.seen_urls \cap uc.work_urls

\* C16. Whatever construction, add_url and next calls were made, every url
\* of work_urls is in seen_urls, and no step removes a url from seen_urls.
C16_WorkWithinSeen ==
    /\ [](uc.work_urls \subseteq uc.seen_urls)
    /\ [][uc.seen_urls \subseteq uc'.seen_urls]_vars

\* next has just taken a url while others, added by add_url, are pending.
C16_Witness ==
    /\ call.op = "next"
    /\ call.ret \in uc.seen_urls \ uc.work_urls
    /\ uc.work_urls # {}
    /\ Cardinality(uc.seen_urls) >= 3

-----------------------------------------------------------------------------
(* C17: no url is fetched twice (CrawlSpec)                                *)

\* C17. No url is fetched twice: seen_urls is at all times the disjoint
\* union of work_urls and the urls already taken, so a taken url is never
\* put back into work_urls, and the url a step fetches was not taken before.
C17_FetchedOnce ==
    /\ [](/\ uc.seen_urls = uc.work_urls \cup taken
          /\ uc.work_urls \cap taken = {})
    /\ [][Len(results') > Len(results) =>
            (call'.arg \notin taken /\ taken' = taken \cup {call'.arg})]_vars

\* The page just fetched links back to a url taken earlier, and the crawl
\* goes on with other urls pending.
C17_Witness ==
    /\ pc = "crawl"
    /\ call.op = "load_and_parse"
    /\ uc.work_urls # {}
    /\ Contributing(web[call.arg])
    /\ web[call.arg].find_ok
    /\ web[call.arg].stale = {}
    /\ \E i \in 1..Len(web[call.arg].hrefs) :
           normalize(uc, web[call.arg].hrefs[i]) \in taken \ {call.arg}

-----------------------------------------------------------------------------
(* C18, C19: what add_url refuses (Spec)                                   *)

\* add_url is to refuse the raw url whose normalized form is n: the raw url
\* is None or empty, n is None, n is in seen_urls already, or the host of n
\* does not end in root.
Refused(url, n) ==
    \/ url = None
    \/ url = Empty
    \/ n = None
    \/ n \in uc.seen_urls
    \/ ~EndsWith(urlparse(n).netloc, uc.root)

HTTPS == <<"h", "t", "t", "p", "s">>

\* The raw url of a step's add_url call after relative-link resolution and
\* lower-casing (nothing for None and the empty string).
Lowered == {Lower(Absolute(uc, url)) : url \in {call'.arg} \ {None, Empty}}

\* low starts with 'http://' or 'https://'.
WebScheme(low) ==
    StartsWith(low, HTTP \o SchemeSep) \/ StartsWith(low, HTTPS \o SchemeSep)

\* C19. normalize gives None for every url that, resolved and lower-cased,
\* does not start with 'http://' or 'https://', so add_url admits no url
\* with another scheme (mailto:, ftp://, httpx://host/, or a scheme-less
\* string that begins with 'http').
C19_WebSchemesOnly ==
    [][call'.op = "add_url" =>
         \A low \in Lowered :
             ~WebScheme(low) =>
                 /\ normalize(uc, low) = None
                 /\ Rejected]_vars

-----------------------------------------------------------------------------
(* C20: the outcome of a crawl does not depend on the visiting order       *)

\* The urls the page fetched for u puts forward: the normalized in-domain
\* links of a page that loaded and landed inside the root domain.
Outlinks(u) ==
    IF u \notin DOMAIN web \/ ~Contributing(web[u]) THEN {}
    ELSE {n \in {normalize(uc, h) : h \in Range(parse_urls(web[u]))} :
             Truthy(n) /\ EndsWith(urlparse(n).netloc, uc.root)}

Follow(R) == R \cup UNION {Outlinks(u) : u \in R}

RECURSIVE FollowAll(_)
FollowAll(R) == IF Follow(R) = R THEN R ELSE FollowAll(Follow(R))

\* The urls that the site entry leads to over the pages the browser shows:
\* a function of the seed and the pages alone.
Determined == FollowAll({Site(seed)})

\* The fetch of u returns None: the page contributed but its body could not
\* be read.
ReturnsNone(u) == Contributing(web[u]) /\ ~web[u].body_ok

\* C20. Order independence: whatever order the urls were taken in, the crawl
\* ends with every seen url fetched, with seen_urls the set the seed and the
\* pages determine, and with the emails that the pages determine (or with
\* the TypeError that they determine).
C20_OrderIndependent ==
    Exhausted =>
        /\ uc.seen_urls = Determined
        /\ DOMAIN web = uc.seen_urls
        /\ (pc = "error") =
               (Cardinality(uc.seen_urls) >= 2
                    /\ \E u \in DOMAIN web : ReturnsNone(u))
        /\ pc = "done" => Items(found) = Contributed

\* A crawl has ended whose first page put forward two urls with different
\* pages, so that they could be taken in either order.
C20_Witness ==
    /\ pc = "done"
    /\ \E a, b \in Outlinks(Site(seed)) \ {Site(seed)} :
           /\ a # b
           /\ Range(web[a].body) # Range(web[b].body)
           /\ Outlinks(a) # Outlinks(b)

=============================================================================
